---- MODULE Spec2Model ----
(***************************************************************************)
(* Model of atmosphere_isa.py: the ISA standard-atmosphere functions       *)
(* T_ISA, p_ISA, rho_ISA, a_ISA and the converters kts_ms, ft_m.           *)
(*                                                                         *)
(* Python floats are IEEE-754 binary64.  The arithmetic the functions do   *)
(* (add, subtract, multiply, divide, compare, decimal literals) is         *)
(* modelled bit-exactly: a finite float is a sign, a mantissa (a natural   *)
(* number held in limbs of 15 bits, because the integers of TLC have     *)
(* 32 bits) and a binary exponent; every operation computes the exact      *)
(* result and rounds it to nearest, ties to even.  The transcendental      *)
(* operations (power, exp, sqrt) are kept as uninterpreted terms over      *)
(* their float arguments, except on the arguments where the result is      *)
(* fixed exactly.                                                          *)
(***************************************************************************)
EXTENDS Integers, Sequences, FiniteSets, TLC

\* F on the values of its arguments.  An operator's argument is evaluated
\* again at each use when TLC evaluates ENABLED; a bound variable holds a
\* value, so the operators below bind what they use more than once.
With1(e, F(_)) == CHOOSE v \in {F(a) : a \in {e}} : TRUE
With2(e1, e2, F(_, _)) == CHOOSE v \in {F(a, b) : a \in {e1}, b \in {e2}} : TRUE
With3(e1, e2, e3, F(_, _, _)) ==
  CHOOSE v \in {F(a, b, c) : a \in {e1}, b \in {e2}, c \in {e3}} : TRUE

\* ------------------------------------------------------------------------
\* Natural numbers of any size: little-endian sequences of limbs < Base,
\* with no leading (most significant) zero limb; <<>> is zero.
\* ------------------------------------------------------------------------
Base == 2^15

RECURSIVE IntBitLen(_)
IntBitLen(n) == With1(n, LAMBDA a : IF a = 0 THEN 0 ELSE 1 + IntBitLen(a \div 2))

LimbBits == IntBitLen(Base - 1)

Max(a, b) == With2(a, b, LAMBDA x, y : IF x >= y THEN x ELSE y)
Min(a, b) == With2(a, b, LAMBDA x, y : IF x <= y THEN x ELSE y)

RECURSIVE BTrim(_)
BTrim(x) ==
  With1(x, LAMBDA a :
    IF a = <<>> THEN a
    ELSE IF a[Len(a)] = 0 THEN BTrim(SubSeq(a, 1, Len(a) - 1)) ELSE a)

RECURSIVE BFromInt(_)
BFromInt(n) ==
  With1(n, LAMBDA a : IF a = 0 THEN <<>> ELSE <<a % Base>> \o BFromInt(a \div Base))

BRest(x) == With1(x, LAMBDA a : IF a = <<>> THEN a ELSE Tail(a))
BLow(x) == With1(x, LAMBDA a : IF a = <<>> THEN 0 ELSE Head(a))

RECURSIVE BAddC(_, _, _)
BAddC(x, y, c) ==
  With3(x, y, c, LAMBDA a, b, d :
    IF a = <<>> /\ b = <<>> THEN (IF d = 0 THEN <<>> ELSE <<d>>)
    ELSE With1(BLow(a) + BLow(b) + d, LAMBDA s :
           <<s % Base>> \o BAddC(BRest(a), BRest(b), s \div Base)))

BAdd(x, y) == BAddC(x, y, 0)

\* x - y for x >= y
RECURSIVE BSubC(_, _, _)
BSubC(x, y, c) ==
  With3(x, y, c, LAMBDA a, b, d :
    IF a = <<>> THEN <<>>
    ELSE With1(Head(a) - BLow(b) - d, LAMBDA s :
           <<s % Base>> \o BSubC(Tail(a), BRest(b), IF s < 0 THEN 1 ELSE 0)))

BSub(x, y) == BTrim(BSubC(x, y, 0))

\* -1, 0, 1 as x < y, x = y, x > y
RECURSIVE BCmpFrom(_, _, _)
BCmpFrom(x, y, i) ==
  IF i = 0 THEN 0
  ELSE IF x[i] < y[i] THEN -1
  ELSE IF x[i] > y[i] THEN 1
  ELSE BCmpFrom(x, y, i - 1)

BCmp(x, y) ==
  With2(x, y, LAMBDA a, b :
    IF Len(a) < Len(b) THEN -1
    ELSE IF Len(a) > Len(b) THEN 1
    ELSE BCmpFrom(a, b, Len(a)))

\* x * d for a limb d < Base
RECURSIVE BMulSmallC(_, _, _)
BMulSmallC(x, d, c) ==
  With3(x, d, c, LAMBDA a, k, e :
    IF a = <<>> THEN (IF e = 0 THEN <<>> ELSE <<e>>)
    ELSE With1(Head(a) * k + e, LAMBDA s :
           <<s % Base>> \o BMulSmallC(Tail(a), k, s \div Base)))

BMulSmall(x, d) == With1(d, LAMBDA k : IF k = 0 THEN <<>> ELSE BMulSmallC(x, k, 0))

RECURSIVE BMul(_, _)
BMul(x, y) ==
  With2(x, y, LAMBDA a, b :
    IF a = <<>> \/ b = <<>> THEN <<>>
    ELSE With1(BMul(a, Tail(b)), LAMBDA rest :
           BAdd(BMulSmall(a, Head(b)), IF rest = <<>> THEN <<>> ELSE <<0>> \o rest)))

\* <<quotient limbs, remainder>> of the limbs i..Len(x) of x divided by a
\* limb 0 < d < Base, most significant limb first
RECURSIVE BDivSmallR(_, _, _)
BDivSmallR(x, d, i) ==
  With3(x, d, i, LAMBDA a, k, j :
    IF j > Len(a) THEN <<<<>>, 0>>
    ELSE With1(BDivSmallR(a, k, j + 1), LAMBDA up :
           With1(up[2] * Base + a[j], LAMBDA s : <<<<s \div k>> \o up[1], s % k>>)))

BDivSmall(x, d) == BTrim(BDivSmallR(x, d, 1)[1])

Zeros(n) == [i \in 1..n |-> 0]

\* x * 2^k and floor(x / 2^k)
BShl(x, k) ==
  With2(x, k, LAMBDA a, n :
    IF a = <<>> THEN <<>>
    ELSE Zeros(n \div LimbBits) \o BMulSmall(a, 2^(n % LimbBits)))

BShr(x, k) ==
  With2(x, k, LAMBDA a, n :
    IF n \div LimbBits >= Len(a) THEN <<>>
    ELSE BDivSmall(SubSeq(a, n \div LimbBits + 1, Len(a)), 2^(n % LimbBits)))

BBitLen(x) ==
  With1(x, LAMBDA a :
    IF a = <<>> THEN 0 ELSE LimbBits * (Len(a) - 1) + IntBitLen(a[Len(a)]))

BOdd(x) == With1(x, LAMBDA a : a # <<>> /\ Head(a) % 2 = 1)

\* the largest limb d with y * d <= cur, counted down from an estimate
\* that is not below it
RECURSIVE BQuotFix(_, _, _)
BQuotFix(cur, y, d) ==
  With3(cur, y, d, LAMBDA a, b, k :
    IF k > 0 /\ BCmp(BMulSmall(b, k), a) > 0 THEN BQuotFix(a, b, k - 1) ELSE k)

\* <<quotient limbs, remainder>> of the limbs i..Len(x) of x divided by y:
\* long division, most significant limb first.  The quotient limb is
\* estimated from the two top limbs of the running remainder and the top
\* limb of y, which is at most 2 too large when that limb has LimbBits bits
RECURSIVE BDivModR(_, _, _)
BDivModR(x, y, i) ==
  With3(x, y, i, LAMBDA a, b, j :
    IF j > Len(a) THEN <<<<>>, <<>>>>
    ELSE With1(BDivModR(a, b, j + 1), LAMBDA up :
         With1(BTrim(<<a[j]>> \o up[2]), LAMBDA cur :
         With1((IF Len(cur) > Len(b) THEN cur[Len(b) + 1] ELSE 0) * Base
                 + (IF Len(cur) >= Len(b) THEN cur[Len(b)] ELSE 0), LAMBDA top :
         With1(BQuotFix(cur, b, Min(Base - 1, top \div b[Len(b)])), LAMBDA d :
           <<<<d>> \o up[1], BSub(cur, BMulSmall(b, d))>>)))))

\* <<floor(x / y), x mod y>> for y # 0; both are scaled so that the top limb
\* of the divisor is full
BDivMod(x, y) ==
  With2(x, y, LAMBDA a, b :
    With1(LimbBits - IntBitLen(b[Len(b)]), LAMBDA sh :
      With1(BDivModR(BShl(a, sh), BShl(b, sh), 1), LAMBDA qr :
        <<BTrim(qr[1]), BShr(qr[2], sh)>>)))

\* ------------------------------------------------------------------------
\* Python float: IEEE-754 binary64.  A finite float is (-1)^s * m * 2^e with
\* m < 2^Precision; it is normal when m has exactly Precision bits and
\* subnormal when it has fewer, and then e = EMin.  Zero is m = <<>>, e = 0.
\* ------------------------------------------------------------------------
Precision == 53
EMin == -1074
EMax == 1023

Fin(s, m, e) == [k |-> "fin", s |-> s, m |-> m, e |-> e]
Inf(s) == [k |-> "inf", s |-> s]
NaN == [k |-> "nan"]
Zero(s) == Fin(s, <<>>, 0)

IsZero(a) == a.k = "fin" /\ a.m = <<>>
Xor(s1, s2) == (s1 + s2) % 2

\* the float (-1)^s * m * 2^e for a mantissa of at most Precision + 1 bits,
\* which has Precision + 1 bits only as 2^Precision, after a carry
Pack(s, m, e) ==
  With3(s, m, e, LAMBDA sg, a, x :
    IF a = <<>> THEN Zero(sg)
    ELSE IF BBitLen(a) > Precision
      THEN (IF x + Precision > EMax THEN Inf(sg) ELSE Fin(sg, BShr(a, 1), x + 1))
    ELSE IF x + BBitLen(a) - 1 > EMax THEN Inf(sg)
    ELSE Fin(sg, a, x))

\* The float nearest to (-1)^s * (M + d) * 2^E, ties to even, where
\* 0 < d < 1 when sticky and d = 0 otherwise.
Round(s, M, E, sticky) ==
  With3(M, E, sticky, LAMBDA m0, e0, st :
    With1(Max(BBitLen(m0) - Precision, EMin - e0), LAMBDA sh :
      IF m0 = <<>> THEN Zero(s)
      ELSE IF sh <= 0
        THEN With1(Min(Precision - BBitLen(m0), e0 - EMin), LAMBDA up :
               Pack(s, BShl(m0, up), e0 - up))
        ELSE With1(BShr(m0, sh), LAMBDA q :
             With1(BCmp(BSub(m0, BShl(q, sh)), BShl(<<1>>, sh - 1)), LAMBDA c :
               Pack(s,
                    IF c > 0 \/ (c = 0 /\ (st \/ BOdd(q))) THEN BAdd(q, <<1>>) ELSE q,
                    e0 + sh)))))

\* float(n) for a Python int n
FromInt(n) ==
  With1(n, LAMBDA a : Round(IF a < 0 THEN 1 ELSE 0, BFromInt(IF a < 0 THEN -a ELSE a), 0, FALSE))

ZeroDivisionError == [k |-> "error", name |-> "ZeroDivisionError"]
TypeError == [k |-> "error", name |-> "TypeError"]
ValueError == [k |-> "error", name |-> "ValueError"]

FNeg(x) == With1(x, LAMBDA a : IF a.k \in {"fin", "inf"} THEN [a EXCEPT !.s = 1 - a.s] ELSE a)

FMul(x, y) ==
  With2(x, y, LAMBDA a, b :
    IF a.k = "nan" \/ b.k = "nan" THEN NaN
    ELSE IF a.k = "inf" \/ b.k = "inf"
      THEN IF IsZero(a) \/ IsZero(b) THEN NaN ELSE Inf(Xor(a.s, b.s))
    ELSE Round(Xor(a.s, b.s), BMul(a.m, b.m), a.e + b.e, FALSE))

\* Python's float division raises on a zero divisor before anything else
FDiv(x, y) ==
  With2(x, y, LAMBDA a, b :
    IF IsZero(b) THEN ZeroDivisionError
    ELSE IF a.k = "nan" \/ b.k = "nan" THEN NaN
    ELSE IF a.k = "inf" THEN IF b.k = "inf" THEN NaN ELSE Inf(Xor(a.s, b.s))
    ELSE IF b.k = "inf" \/ IsZero(a) THEN Zero(Xor(a.s, b.s))
    ELSE With1(Max(0, Precision + 2 + BBitLen(b.m) - BBitLen(a.m)), LAMBDA K :
           With1(BDivMod(BShl(a.m, K), b.m), LAMBDA qr :
             Round(Xor(a.s, b.s), qr[1], a.e - b.e - K, qr[2] # <<>>))))

\* the sum of two finite floats that are not zero
FAddFinite(a, b) ==
  With1(Min(a.e, b.e), LAMBDA e :
    With2(BShl(a.m, a.e - e), BShl(b.m, b.e - e), LAMBDA A, B :
      With1(BCmp(A, B), LAMBDA c :
        IF a.s = b.s THEN Round(a.s, BAdd(A, B), e, FALSE)
        ELSE IF c = 0 THEN Zero(0)
        ELSE IF c > 0 THEN Round(a.s, BSub(A, B), e, FALSE)
        ELSE Round(b.s, BSub(B, A), e, FALSE))))

FAdd(x, y) ==
  With2(x, y, LAMBDA a, b :
    IF a.k = "nan" \/ b.k = "nan" THEN NaN
    ELSE IF a.k = "inf"
      THEN IF b.k = "inf" /\ b.s # a.s THEN NaN ELSE a
    ELSE IF b.k = "inf" THEN b
    ELSE IF IsZero(a) /\ IsZero(b) THEN Zero(IF a.s = 1 /\ b.s = 1 THEN 1 ELSE 0)
    ELSE IF IsZero(a) THEN b
    ELSE IF IsZero(b) THEN a
    ELSE FAddFinite(a, b))

FSub(a, b) == FAdd(a, FNeg(b))

\* -1, 0, 1 for floats that are not NaN
FSign(a) == IF IsZero(a) THEN 0 ELSE IF a.s = 1 THEN -1 ELSE 1

FCmp(x, y) ==
  With2(x, y, LAMBDA a, b :
    IF a.k = "inf" THEN (IF b.k = "inf" /\ b.s = a.s THEN 0 ELSE FSign(a))
    ELSE IF b.k = "inf" THEN -FSign(b)
    ELSE IF FSign(a) # FSign(b) THEN (IF FSign(a) < FSign(b) THEN -1 ELSE 1)
    ELSE IF FSign(a) = 0 THEN 0
    ELSE With1(Min(a.e, b.e), LAMBDA e :
           FSign(a) * BCmp(BShl(a.m, a.e - e), BShl(b.m, b.e - e))))

\* the comparisons; every comparison with NaN is false
FLe(x, y) == With2(x, y, LAMBDA a, b : a.k # "nan" /\ b.k # "nan" /\ FCmp(a, b) <= 0)
FLt(x, y) == With2(x, y, LAMBDA a, b : a.k # "nan" /\ b.k # "nan" /\ FCmp(a, b) < 0)
FGt(x, y) == With2(x, y, LAMBDA a, b : a.k # "nan" /\ b.k # "nan" /\ FCmp(a, b) > 0)
FGe(x, y) == With2(x, y, LAMBDA a, b : a.k # "nan" /\ b.k # "nan" /\ FCmp(a, b) >= 0)

\* the float a decimal literal n/d (d a power of ten) denotes: the float
\* nearest to the quotient, which is what the correctly rounded division of
\* the two exactly represented integers gives
Lit(n, d) == FDiv(FromInt(n), FromInt(d))

\* ------------------------------------------------------------------------
\* Python values.  A number is a float; None is what a function returns
\* when it falls off its end; an error is an exception that was raised and
\* propagates.  A result of a transcendental operation that is not fixed
\* exactly is a term over its arguments, and so is arithmetic on a term.
\* ------------------------------------------------------------------------
None == [k |-> "None"]
One == FromInt(1)

IsNum(v) == v.k \in {"fin", "inf", "nan"}
IsErr(v) == v.k = "error"
IsReal(v) == v.k = "fin"

\* a binary arithmetic operator of Python on two scalar values
Num2(F(_, _), op, x, y) ==
  With2(x, y, LAMBDA a, b :
    IF IsErr(a) THEN a
    ELSE IF IsErr(b) THEN b
    ELSE IF a.k = "None" \/ b.k = "None" THEN TypeError
    ELSE IF IsNum(a) /\ IsNum(b) THEN F(a, b)
    ELSE [k |-> op, a |-> a, b |-> b])

SAdd(a, b) == Num2(FAdd, "add", a, b)
SSub(a, b) == Num2(FSub, "sub", a, b)
SMul(a, b) == Num2(FMul, "mul", a, b)
SDiv(a, b) == Num2(FDiv, "div", a, b)
SNeg(x) == With1(x, LAMBDA a : IF IsNum(a) THEN FNeg(a) ELSE IF IsErr(a) THEN a ELSE TypeError)

\* x ** y on floats: 1.0 ** y is 1.0 and inf ** y is inf for y > 0
SPow(b, e) ==
  With2(b, e, LAMBDA x, y :
    IF IsErr(x) THEN x
    ELSE IF ~IsNum(x) THEN [k |-> "pow", a |-> x, b |-> y]
    ELSE IF x.k = "nan" THEN NaN
    ELSE IF x = One THEN One
    ELSE IF x.k = "inf" /\ x.s = 0 /\ FGt(y, Zero(0)) THEN Inf(0)
    ELSE [k |-> "pow", a |-> x, b |-> y])

\* np.exp(x): exp(-inf) is 0.0, exp(inf) is inf, exp(0.0) is 1.0
SExp(e) ==
  With1(e, LAMBDA x :
    IF IsErr(x) THEN x
    ELSE IF ~IsNum(x) THEN [k |-> "exp", a |-> x]
    ELSE IF x.k = "nan" THEN NaN
    ELSE IF x.k = "inf" THEN (IF x.s = 1 THEN Zero(0) ELSE Inf(0))
    ELSE IF IsZero(x) THEN One
    ELSE [k |-> "exp", a |-> x])

\* np.sqrt(x): nan for a negative argument (no exception), x for zero and inf
SSqrt(e) ==
  With1(e, LAMBDA x :
    IF IsErr(x) THEN x
    ELSE IF x.k = "None" THEN TypeError
    ELSE IF ~IsNum(x) THEN [k |-> "sqrt", a |-> x]
    ELSE IF x.k = "nan" THEN NaN
    ELSE IF IsZero(x) THEN x
    ELSE IF x.s = 1 THEN NaN
    ELSE IF x.k = "inf" THEN x
    ELSE [k |-> "sqrt", a |-> x])

\* ------------------------------------------------------------------------
\* Arguments and results that are not scalars.  A list and a numpy array
\* hold their items; an iterator (a generator, a map object) also holds how
\* many of its items have been consumed, and it can be consumed only once.
\* All three are instances of collections.abc.Iterable.
\* ------------------------------------------------------------------------
List(items) == [k |-> "list", items |-> items]
NpArray(items) == [k |-> "array", items |-> items]
Iter(items, pos) == [k |-> "iter", items |-> items, pos |-> pos]

IsIterable(x) == x.k \in {"list", "array", "iter"}

\* the items an iteration over x yields, and x after that iteration
Remaining(x) == IF x.k = "iter" THEN SubSeq(x.items, x.pos + 1, Len(x.items)) ELSE x.items
Consumed(x) == IF x.k = "iter" THEN Iter(x.items, Len(x.items)) ELSE x

\* the array of the elementwise results, or the first exception one raised
Elementwise(results) ==
  With1(results, LAMBDA items :
    IF \E i \in 1..Len(items) : IsErr(items[i])
      THEN items[CHOOSE i \in 1..Len(items) :
                   IsErr(items[i]) /\ \A j \in 1..(i - 1) : ~IsErr(items[j])]
      ELSE NpArray(items))

\* a binary operator applied to scalars or numpy arrays, with numpy's
\* broadcasting of one-dimensional arrays; a list or an iterator operand
\* is not a number: Python raises TypeError
Broadcast(Op(_, _), x, y) ==
  With2(x, y, LAMBDA a, b :
    IF IsErr(a) THEN a
    ELSE IF IsErr(b) THEN b
    ELSE IF a.k \in {"list", "iter"} \/ b.k \in {"list", "iter"} THEN TypeError
    ELSE IF a.k = "array" /\ b.k = "array"
      THEN IF Len(a.items) = Len(b.items)
             THEN Elementwise([i \in 1..Len(a.items) |-> Op(a.items[i], b.items[i])])
           ELSE IF Len(a.items) = 1
             THEN Elementwise([i \in 1..Len(b.items) |-> Op(a.items[1], b.items[i])])
           ELSE IF Len(b.items) = 1
             THEN Elementwise([i \in 1..Len(a.items) |-> Op(a.items[i], b.items[1])])
           ELSE ValueError
    ELSE IF a.k = "array"
      THEN Elementwise([i \in 1..Len(a.items) |-> Op(a.items[i], b)])
    ELSE IF b.k = "array"
      THEN Elementwise([i \in 1..Len(b.items) |-> Op(a, b.items[i])])
    ELSE Op(a, b))

Mul(a, b) == Broadcast(SMul, a, b)
Div(a, b) == Broadcast(SDiv, a, b)

Sqrt(x) ==
  With1(x, LAMBDA a :
    IF IsErr(a) THEN a
    ELSE IF a.k = "array" THEN Elementwise([i \in 1..Len(a.items) |-> SSqrt(a.items[i])])
    ELSE SSqrt(a))

\* ------------------------------------------------------------------------
\* atmosphere_isa.py
\* ------------------------------------------------------------------------
p0 == FromInt(101325)
rho0 == Lit(1225, 1000)
T0 == Lit(28815, 100)
g == Lit(980665, 100000)
r == Lit(28704, 100)
gamma == Lit(14, 10)

\* the module's global names, which every call looks up when it runs
Globals == [p0 |-> p0, rho0 |-> rho0, T0 |-> T0, g |-> g, r |-> r, gamma |-> gamma]

\* the literals of the function bodies
Tropopause == FromInt(11000)
T_Strato == Lit(21665, 100)
p_Tropopause == FromInt(22632)
LapseRate == Lit(65, 10)
Thousand == FromInt(1000)
LapseRatePerMetre == Lit(65, 10000)
p_Exponent == Lit(52561, 10000)
GammaLiteral == Lit(14, 10)
MetresPerNauticalMile == FromInt(1852)
SecondsPerHour == FromInt(3600)
MetresPerFoot == Lit(3048, 10000)

\* T_ISA with the boundary left out of the troposphere: h < 11000
T_ISA_scalar_strict(c, h) ==
  IF FLt(h, Tropopause)
    THEN SSub(c.T0, SDiv(SMul(LapseRate, h), Thousand))
  ELSE IF FGt(h, Tropopause) THEN T_Strato
  ELSE None

\* T_ISA with the boundary moved to the isothermal layer: h >= 11000
T_ISA_scalar_upper(c, h) ==
  IF FLt(h, Tropopause)
    THEN SSub(c.T0, SDiv(SMul(LapseRate, h), Thousand))
  ELSE IF FGe(h, Tropopause) THEN T_Strato
  ELSE None

\* T_ISA returning the temperature of the isothermal layer in Celsius
T_ISA_scalar_celsius(c, h) ==
  IF FLe(h, Tropopause)
    THEN SSub(c.T0, SDiv(SMul(LapseRate, h), Thousand))
  ELSE IF FGt(h, Tropopause) THEN FNeg(Lit(565, 10))
  ELSE None

\* T_ISA on a height that is not iterable: two ifs, and no else
T_ISA_scalar(c, h) ==
  IF FLe(h, Tropopause)
    THEN SSub(c.T0, SDiv(SMul(LapseRate, h), Thousand))
  ELSE IF FGt(h, Tropopause) THEN T_Strato
  ELSE None

\* p_ISA with the pressure at the tropopause recomputed from p0 and T0
p_ISA_scalar_recomputed(c, h) ==
  IF FLe(h, Tropopause)
    THEN SMul(c.p0, SPow(SSub(One, SDiv(SMul(LapseRatePerMetre, h), c.T0)),
                         p_Exponent))
  ELSE IF FGt(h, Tropopause)
    THEN SMul(SMul(c.p0, SPow(SSub(One, SDiv(SMul(LapseRatePerMetre, Tropopause), c.T0)),
                              p_Exponent)),
              SExp(SMul(SDiv(SNeg(c.g), SMul(c.r, T_Strato)), SSub(h, Tropopause))))
  ELSE None

\* p_ISA on a height that is not iterable
p_ISA_scalar(c, h) ==
  IF FLe(h, Tropopause)
    THEN SMul(c.p0, SPow(SSub(One, SDiv(SMul(LapseRatePerMetre, h), c.T0)),
                         p_Exponent))
  ELSE IF FGt(h, Tropopause)
    THEN SMul(p_Tropopause,
              SExp(SMul(SDiv(SNeg(c.g), SMul(c.r, T_Strato)), SSub(h, Tropopause))))
  ELSE None

\* np.array(list(map(f, h))) for an iterable h
MapAll(F(_), items) == NpArray([i \in 1..Len(items) |-> F(items[i])])

T_ISA(c, h) ==
  IF IsIterable(h) THEN MapAll(LAMBDA x : T_ISA_scalar(c, x), Remaining(h))
  ELSE T_ISA_scalar(c, h)

p_ISA(c, h) ==
  IF IsIterable(h) THEN MapAll(LAMBDA x : p_ISA_scalar(c, x), Remaining(h))
  ELSE p_ISA_scalar(c, h)

\* p_ISA(h) is evaluated first, and T_ISA(h) on what that call left of h
rho_ISA(c, h) == Div(p_ISA(c, h), Mul(c.r, T_ISA(c, Consumed(h))))

a_ISA(c, h) == Sqrt(Mul(Mul(GammaLiteral, c.r), T_ISA(c, h)))

kts_ms(speed) == Mul(Div(speed, MetresPerNauticalMile), SecondsPerHour)

ft_m(height) == Div(height, MetresPerFoot)


\* ------------------------------------------------------------------------
\* The calls, step by step.  Each thread makes one call fn(arg); the steps
\* of the calls of different threads interleave.  A call of T_ISA or p_ISA
\* on an iterable takes one step per element (the map), a call of rho_ISA
\* or a_ISA runs its inner calls one after the other and then combines.
\* ------------------------------------------------------------------------
Threads == {1, 2}

Atmosphere == {"T_ISA", "p_ISA", "rho_ISA", "a_ISA"}
Converters == {"kts_ms", "ft_m"}
Functions == Atmosphere \cup Converters

\* the longest list, array or iterator passed to a call
MaxLen == 2

RealAlts == {FromInt(n) : n \in {-1000, 0, 11000, 11001, 18288}} \cup {Lit(109995, 10)}
Scalars == RealAlts \cup {NaN, Inf(0), Inf(1)}
Elems == {FromInt(0), FromInt(11000), FromInt(11001), NaN}
Seqs == UNION {[1..n -> Elems] : n \in 0..MaxLen}
Args ==
  Scalars \cup {List(q) : q \in Seqs} \cup {NpArray(q) : q \in Seqs}
          \cup {Iter(q, 0) : q \in Seqs}

\* the arguments of the calls that run concurrently
ConcArgs ==
  {FromInt(0), FromInt(11001),
   List(<<FromInt(0), FromInt(11001)>>), Iter(<<FromInt(11000), FromInt(11001)>>, 0)}

Unset == [k |-> "unset"]

VARIABLES
  consts,   \* the module's globals p0, rho0, T0, g, r, gamma
  pc,       \* per thread: "off", "idle", "dispatch", "map", "combine", "done"
  fn,       \* per thread: the function called
  arg,      \* per thread: the argument object (an iterator holds its position)
  sub,      \* per thread: the function whose body is running (T_ISA or p_ISA)
  acc,      \* per thread: the results the running map has produced
  cur,      \* per thread: the position of the running map in a list or array
  pval,     \* per thread: what p_ISA(h) returned inside rho_ISA
  tval,     \* per thread: what T_ISA(h) returned inside rho_ISA or a_ISA
  result,   \* per thread: what the call returned, or the exception it raised
  evals     \* per thread: how often a scalar branch has been evaluated

vars == <<consts, pc, fn, arg, sub, acc, cur, pval, tval, result, evals>>

InitCalls(active, pool) ==
  /\ consts = Globals
  /\ pc = [t \in Threads |-> IF t \in active THEN "idle" ELSE "off"]
  /\ \E f \in [active -> Functions], x \in [active -> pool] :
       /\ fn = [t \in Threads |-> IF t \in active THEN f[t] ELSE "none"]
       /\ arg = [t \in Threads |-> IF t \in active THEN x[t] ELSE Unset]
  /\ sub = [t \in Threads |-> "none"]
  /\ acc = [t \in Threads |-> <<>>]
  /\ cur = [t \in Threads |-> 0]
  /\ pval = [t \in Threads |-> Unset]
  /\ tval = [t \in Threads |-> Unset]
  /\ result = [t \in Threads |-> Unset]
  /\ evals = [t \in Threads |-> 0]

\* one thread, any call
Init == InitCalls({1}, Args)

\* two threads
InitConc == InitCalls(Threads, ConcArgs)

\* the scalar branches of the function whose body is running
Branch(f, c, h) == IF f = "T_ISA" THEN T_ISA_scalar(c, h) ELSE p_ISA_scalar(c, h)

\* where the running map stands in its iterable, and the iterable one on
Cursor(t) == IF arg[t].k = "iter" THEN arg[t].pos ELSE cur[t]

\* the call of an atmosphere function starts: rho_ISA evaluates p_ISA(h)
\* first, a_ISA evaluates T_ISA(h)
Enter(t) ==
  /\ pc[t] = "idle"
  /\ fn[t] \in Atmosphere
  /\ sub' = [sub EXCEPT ![t] = IF fn[t] \in {"p_ISA", "rho_ISA"} THEN "p_ISA" ELSE "T_ISA"]
  /\ pc' = [pc EXCEPT ![t] = "dispatch"]
  /\ UNCHANGED <<consts, fn, arg, acc, cur, pval, tval, result, evals>>

\* kts_ms and ft_m: one expression
Convert(t) ==
  /\ pc[t] = "idle"
  /\ fn[t] \in Converters
  /\ result' = [result EXCEPT ![t] = IF fn[t] = "kts_ms" THEN kts_ms(arg[t]) ELSE ft_m(arg[t])]
  /\ pc' = [pc EXCEPT ![t] = "done"]
  /\ UNCHANGED <<consts, fn, arg, sub, acc, cur, pval, tval, evals>>

\* T_ISA or p_ISA returns v: to the caller of the call, or into rho_ISA or
\* a_ISA, which goes on with its next operand
Return(t, v) ==
  IF fn[t] = sub[t]
    THEN /\ result' = [result EXCEPT ![t] = v]
         /\ pc' = [pc EXCEPT ![t] = "done"]
         /\ UNCHANGED <<sub, pval, tval>>
  ELSE IF fn[t] = "rho_ISA" /\ sub[t] = "p_ISA"
    THEN /\ pval' = [pval EXCEPT ![t] = v]
         /\ sub' = [sub EXCEPT ![t] = "T_ISA"]
         /\ pc' = [pc EXCEPT ![t] = "dispatch"]
         /\ UNCHANGED <<tval, result>>
  ELSE /\ tval' = [tval EXCEPT ![t] = v]
       /\ pc' = [pc EXCEPT ![t] = "combine"]
       /\ UNCHANGED <<sub, pval, result>>

\* the scalar branch keeping its temperature in the global T0
EvalScalar_global(t) ==
  /\ pc[t] = "dispatch"
  /\ ~IsIterable(arg[t])
  /\ evals' = [evals EXCEPT ![t] = @ + 1]
  /\ Return(t, Branch(sub[t], consts, arg[t]))
  /\ consts' = IF sub[t] = "T_ISA"
                 THEN [consts EXCEPT !.T0 = Branch(sub[t], consts, arg[t])]
                 ELSE consts
  /\ UNCHANGED <<fn, arg, acc, cur>>

\* isinstance(h, Iterable) is false: the two ifs on h
EvalScalar(t) ==
  /\ pc[t] = "dispatch"
  /\ ~IsIterable(arg[t])
  /\ evals' = [evals EXCEPT ![t] = @ + 1]
  /\ Return(t, Branch(sub[t], consts, arg[t]))
  /\ UNCHANGED <<consts, fn, arg, acc, cur>>

\* isinstance(h, Iterable) is true: map(f, h) iterates h from where it
\* stands, a list or an array from its start
BeginMap(t) ==
  /\ pc[t] = "dispatch"
  /\ IsIterable(arg[t])
  /\ acc' = [acc EXCEPT ![t] = <<>>]
  /\ cur' = [cur EXCEPT ![t] = 0]
  /\ pc' = [pc EXCEPT ![t] = "map"]
  /\ UNCHANGED <<consts, fn, arg, sub, pval, tval, result, evals>>

\* the map putting each result in front of the earlier ones
MapNext_reversed(t) ==
  /\ pc[t] = "map"
  /\ Cursor(t) < Len(arg[t].items)
  /\ acc' = [acc EXCEPT ![t] = <<Branch(sub[t], consts, arg[t].items[Cursor(t) + 1])>> \o @]
  /\ IF arg[t].k = "iter"
       THEN arg' = [arg EXCEPT ![t].pos = @ + 1] /\ UNCHANGED cur
       ELSE cur' = [cur EXCEPT ![t] = @ + 1] /\ UNCHANGED arg
  /\ evals' = [evals EXCEPT ![t] = @ + 1]
  /\ UNCHANGED <<consts, pc, fn, sub, pval, tval, result>>

\* the map calling f twice on each element
MapNext_twice(t) ==
  /\ pc[t] = "map"
  /\ Cursor(t) < Len(arg[t].items)
  /\ acc' = [acc EXCEPT ![t] = Append(@, Branch(sub[t], consts, arg[t].items[Cursor(t) + 1]))]
  /\ IF arg[t].k = "iter"
       THEN arg' = [arg EXCEPT ![t].pos = @ + 1] /\ UNCHANGED cur
       ELSE cur' = [cur EXCEPT ![t] = @ + 1] /\ UNCHANGED arg
  /\ evals' = [evals EXCEPT ![t] = @ + 2]
  /\ UNCHANGED <<consts, pc, fn, sub, pval, tval, result>>

\* list(map(f, h)) takes the next element x and calls f(x), which is not
\* iterable and goes through the two ifs
MapNext(t) ==
  /\ pc[t] = "map"
  /\ Cursor(t) < Len(arg[t].items)
  /\ acc' = [acc EXCEPT ![t] = Append(@, Branch(sub[t], consts, arg[t].items[Cursor(t) + 1]))]
  /\ IF arg[t].k = "iter"
       THEN arg' = [arg EXCEPT ![t].pos = @ + 1] /\ UNCHANGED cur
       ELSE cur' = [cur EXCEPT ![t] = @ + 1] /\ UNCHANGED arg
  /\ evals' = [evals EXCEPT ![t] = @ + 1]
  /\ UNCHANGED <<consts, pc, fn, sub, pval, tval, result>>

\* the iterable is exhausted: np.array(list(...)) is returned
MapStop(t) ==
  /\ pc[t] = "map"
  /\ Cursor(t) = Len(arg[t].items)
  /\ Return(t, NpArray(acc[t]))
  /\ UNCHANGED <<consts, fn, arg, acc, cur, evals>>

\* rho_ISA: p_ISA(h)/(r*T_ISA(h)); a_ISA: np.sqrt(1.4*r*T_ISA(h))
Combine(t) ==
  /\ pc[t] = "combine"
  /\ result' = [result EXCEPT ![t] =
       IF fn[t] = "rho_ISA" THEN Div(pval[t], Mul(consts.r, tval[t]))
       ELSE Sqrt(Mul(Mul(GammaLiteral, consts.r), tval[t]))]
  /\ pc' = [pc EXCEPT ![t] = "done"]
  /\ UNCHANGED <<consts, fn, arg, sub, acc, cur, pval, tval, evals>>

Step(t) ==
  \/ Enter(t)
  \/ Convert(t)
  \/ EvalScalar(t)
  \/ BeginMap(t)
  \/ MapNext(t)
  \/ MapStop(t)
  \/ Combine(t)

Next == \E t \in Threads : Step(t)

Spec == Init /\ [][Next]_vars

ConcSpec == InitConc /\ [][Next]_vars

\* a call that has begun is scheduled until it returns
LiveSpec == Init /\ [][Next]_vars /\ \A t \in Threads : WF_vars(Step(t))


\* ------------------------------------------------------------------------
\* The properties
\* ------------------------------------------------------------------------
Done(t) == pc[t] = "done"
AllReal(items) == \A i \in 1..Len(items) : IsReal(items[i])
IsRealSeq(x) == x.k \in {"list", "array"} /\ AllReal(x.items)

\* the call f(h) on a scalar h
ScalarCall(f, h) ==
  CASE f = "T_ISA" -> T_ISA(Globals, h)
    [] f = "p_ISA" -> p_ISA(Globals, h)
    [] f = "rho_ISA" -> rho_ISA(Globals, h)
    [] f = "a_ISA" -> a_ISA(Globals, h)
    [] f = "kts_ms" -> kts_ms(h)
    [] f = "ft_m" -> ft_m(h)

\* the call f(x) run alone on the argument as it was passed
Fresh(x) == IF x.k = "iter" THEN Iter(x.items, 0) ELSE x
RunAlone(f, x) == ScalarCall(f, Fresh(x))

\* C1: for every scalar real altitude h, T_ISA(h) is T0 - 6.5*h/1000 when
\* h <= 11000 (11000 included, negative h extrapolated) and the constant
\* 216.65 when h > 11000.
C1_TwoLayerTemperature ==
  \A t \in Threads :
    Done(t) /\ fn[t] = "T_ISA" /\ IsReal(arg[t]) =>
      result[t] = IF FLe(arg[t], FromInt(11000))
                    THEN FSub(T0, FDiv(FMul(Lit(65, 10), arg[t]), FromInt(1000)))
                    ELSE Lit(21665, 100)

\* T_ISA has returned on a negative altitude: above T0, by extrapolation
C1_Witness ==
  \E t \in Threads :
    /\ Done(t) /\ fn[t] = "T_ISA" /\ arg[t] = FromInt(-1000)
    /\ FGt(result[t], T0)

\* C2: each of T_ISA, p_ISA, rho_ISA, a_ISA called on an ordered sequence of
\* n reals returns n results, in input order, the i-th the result of the
\* scalar call on the i-th element.
C2_MapSemantics ==
  \A t \in Threads :
    Done(t) /\ fn[t] \in Atmosphere /\ IsRealSeq(arg[t]) =>
      /\ result[t].k = "array"
      /\ Len(result[t].items) = Len(arg[t].items)
      /\ \A i \in 1..Len(arg[t].items) :
           result[t].items[i] = ScalarCall(fn[t], arg[t].items[i])

\* rho_ISA has returned on a list of two different altitudes, one in each layer
C2_Witness ==
  \E t \in Threads :
    /\ Done(t) /\ fn[t] = "rho_ISA"
    /\ arg[t] = List(<<FromInt(11001), FromInt(0)>>)
    /\ result[t].k = "array" /\ Len(result[t].items) = 2

\* C3: kts_ms and ft_m given a sequence of reals return, without error, the
\* sequence of the same length of the converted elements.
C3_ConvertersMap ==
  \A t \in Threads :
    Done(t) /\ fn[t] \in Converters /\ arg[t].k = "list" /\ AllReal(arg[t].items) =>
      /\ result[t].k = "array"
      /\ Len(result[t].items) = Len(arg[t].items)
      /\ \A i \in 1..Len(arg[t].items) :
           result[t].items[i] = ScalarCall(fn[t], arg[t].items[i])

\* a numeric result: a number, or an array of numbers
IsNumeric(v) ==
  IF v.k = "array" THEN \A i \in 1..Len(v.items) : v.items[i].k \notin {"None", "error"}
  ELSE v.k \notin {"None", "error", "list", "iter", "unset"}

\* C4: no call of T_ISA, p_ISA, rho_ISA, a_ISA on a number or an iterable of
\* numbers signals an error; negative and non-finite altitudes, NaN
\* included, yield a numeric result.
C4_NeverAnError ==
  \A t \in Threads :
    Done(t) /\ fn[t] \in Atmosphere => ~IsErr(result[t]) /\ IsNumeric(result[t])

\* C5 as stated: T_ISA(11000), by the troposphere formula, equals 216.65,
\* the value T_ISA returns for every h > 11000.
C5_ContinuousAtBoundary ==
  \A t \in Threads :
    Done(t) /\ fn[t] = "T_ISA" /\ IsReal(arg[t]) /\ FGe(arg[t], FromInt(11000)) =>
      result[t] = Lit(21665, 100)

\* the float next below a positive normal float that is not a power of two
Pred(a) == Fin(a.s, BSub(a.m, <<1>>), a.e)

\* C5 as amended: T_ISA(11000) is the float next below 216.65 (it is
\* 216.64999999999998, one unit in the last place less), and T_ISA returns
\* 216.65 for every h > 11000.
C5_BoundaryOneUlpBelow ==
  \A t \in Threads :
    Done(t) /\ fn[t] = "T_ISA" /\ IsReal(arg[t]) /\ FGe(arg[t], FromInt(11000)) =>
      result[t] = IF arg[t] = FromInt(11000) THEN Pred(Lit(21665, 100))
                  ELSE Lit(21665, 100)

\* T_ISA has returned on the boundary altitude
C5_Witness ==
  \E t \in Threads :
    Done(t) /\ fn[t] = "T_ISA" /\ arg[t] = FromInt(11000) /\ IsReal(result[t])

\* what rho_ISA is to return by the composition law, one density per altitude
Density(h) == SDiv(p_ISA_scalar(Globals, h), SMul(r, T_ISA_scalar(Globals, h)))

\* C6: for every input h, a scalar or an ordered or iterable sequence of
\* reals, rho_ISA(h) is p_ISA(h) / (r * T_ISA(h)) elementwise, one density
\* per input altitude.
C6_Composition ==
  \A t \in Threads :
    Done(t) /\ fn[t] = "rho_ISA" =>
      /\ IsReal(arg[t]) => result[t] = Density(arg[t])
      /\ IsIterable(arg[t]) /\ AllReal(arg[t].items) =>
           result[t] = NpArray([i \in 1..Len(arg[t].items) |-> Density(arg[t].items[i])])

\* C7: for every scalar h, p_ISA is p0*(1 - 0.0065*h/T0)**5.2561 for
\* h <= 11000 (11000 included) and the literal 22632 times
\* exp(-g/(r*216.65)*(h-11000)) for h > 11000; 22632 is not recomputed from
\* p0 and T0.
C7_TwoLayerPressure ==
  \A t \in Threads :
    Done(t) /\ fn[t] = "p_ISA" /\ IsReal(arg[t]) =>
      result[t] =
        IF FLe(arg[t], FromInt(11000))
          THEN SMul(p0, SPow(FSub(One, FDiv(FMul(Lit(65, 10000), arg[t]), T0)),
                             Lit(52561, 10000)))
          ELSE SMul(FromInt(22632),
                    SExp(FMul(FDiv(FNeg(g), FMul(r, Lit(21665, 100))),
                              FSub(arg[t], FromInt(11000)))))

\* p_ISA has returned above the tropopause: the literal times an exponential
C7_Witness ==
  \E t \in Threads :
    /\ Done(t) /\ fn[t] = "p_ISA" /\ arg[t] = FromInt(18288)
    /\ result[t].k = "mul" /\ result[t].a = FromInt(22632) /\ result[t].b.k = "exp"

\* the scalar evaluations a call of T_ISA or p_ISA on x is to make
Evaluations(x) == IF IsIterable(x) THEN Len(x.items) ELSE 1

\* C8: every call of T_ISA or p_ISA terminates, a call on a scalar after
\* one branch evaluation and a call on a sequence of n reals after exactly
\* n scalar evaluations.
C8_Terminates ==
  \A t \in Threads :
    (pc[t] = "idle" /\ fn[t] \in {"T_ISA", "p_ISA"})
      ~> (Done(t) /\ evals[t] = Evaluations(arg[t]))

\* T_ISA has returned on a list of two altitudes after two evaluations
C8_Witness ==
  \E t \in Threads :
    /\ Done(t) /\ fn[t] = "T_ISA" /\ arg[t].k = "list"
    /\ Len(arg[t].items) = 2 /\ evals[t] = 2

\* C9: every call leaves the module constants unchanged, and in any
\* interleaving of concurrent calls each call returns what it returns when
\* run alone.
C9_PureUnderInterleaving ==
  /\ consts = Globals
  /\ \A t \in Threads : Done(t) => result[t] = RunAlone(fn[t], arg[t])

\* one call has returned while the call of the other thread is in its map
C9_Witness ==
  /\ Done(1) /\ fn[1] = "rho_ISA" /\ arg[1].k = "list"
  /\ pc[2] = "map" /\ fn[2] = "a_ISA" /\ Len(acc[2]) = 1

\* C10 as stated: for every scalar real h, T_ISA(h) is defined and
\* T_ISA(h) >= 216.65 > 0, so r*T_ISA(h) is not zero and 1.4*r*T_ISA(h) is
\* not negative.
C10_AtLeastIsothermal ==
  \A t \in Threads :
    Done(t) /\ fn[t] = "T_ISA" /\ IsReal(arg[t]) =>
      IsNum(result[t]) /\ FGe(result[t], Lit(21665, 100))

\* C10 as amended: for every scalar real h, T_ISA(h) is defined and
\* T_ISA(h) >= T_ISA(11000) > 0, where T_ISA(11000) is the float next below
\* 216.65; so the divisor r*T_ISA(h) of rho_ISA is positive and the
\* argument 1.4*r*T_ISA(h) of the square root in a_ISA is not negative.
C10_PositiveTemperature ==
  \A t \in Threads :
    /\ Done(t) /\ fn[t] = "T_ISA" /\ IsReal(arg[t]) =>
         /\ IsNum(result[t])
         /\ FGe(result[t], Pred(Lit(21665, 100)))
         /\ FGt(result[t], Zero(0))
    /\ pc[t] = "combine" /\ IsReal(arg[t]) =>
         /\ IsNum(tval[t])
         /\ fn[t] = "rho_ISA" => FGt(FMul(r, tval[t]), Zero(0))
         /\ fn[t] = "a_ISA" => FGe(FMul(FMul(Lit(14, 10), r), tval[t]), Zero(0))

\* a_ISA is about to take the square root for an altitude above the tropopause
C10_Witness ==
  \E t \in Threads :
    /\ pc[t] = "combine" /\ fn[t] = "a_ISA" /\ arg[t] = FromInt(11001)
    /\ tval[t] = Lit(21665, 100)


====
